---- MODULE Spec2Model ----
(***************************************************************************)
(* A model of metadata_lib: the metadata graph (namespaces, schemas,       *)
(* systems, data entities, pipelines), the derivation of compound keys     *)
(* (unids), the id and unid indexes, whole-graph and new-entity            *)
(* validation, the dependency gate, and the MetadataManager's              *)
(* add / update / delete operations on workspace and cache, and its        *)
(* reading from and writing to the storage adapters.                       *)
(*                                                                         *)
(* Representation.                                                         *)
(*  - A str that takes part in a unid (a name, a type, str(version)) is a  *)
(*    sequence of dot-free segments; f'{a}.{b}' is the concatenation of    *)
(*    the segment sequences.  None (an unset unid) is the empty sequence.  *)
(*  - A reference field (int | str) is a record [k, id, unid]: k = "id"    *)
(*    for an int, k = "unid" for a str.                                    *)
(*  - A Python dict used as an index is the sequence of its values in      *)
(*    insertion order; its keys are the values' id (by_id) or unid         *)
(*    (by_unid) fields.                                                    *)
(*  - A config key is a sequence of characters, so that str.startswith     *)
(*    is computed, not assumed.                                            *)
(***************************************************************************)
EXTENDS Integers, Sequences, FiniteSets, TLC

VARIABLES workspace, cache, pc, call, ret, commits, current, writes

vars == <<workspace, cache, pc, call, ret, commits, current, writes>>

\* ------------------------------------------------------------------------
\* Values
\* ------------------------------------------------------------------------

NoUnid == <<>>

NoConfig == <<>>

IdRef(n) == [k |-> "id", id |-> n, unid |-> NoUnid]

UnidRef(u) == [k |-> "unid", id |-> 0, unid |-> u]

IsInt(ref) == ref.k = "id"

IsStr(ref) == ref.k = "unid"

Namespace(id, name) == [id |-> id, unid |-> NoUnid, name |-> name]

Schema(id, namespace, name, type, version) ==
    [id |-> id, unid |-> NoUnid, namespace |-> namespace, name |-> name,
     type |-> type, version |-> version]

System(id, namespace, name, type, config) ==
    [id |-> id, unid |-> NoUnid, namespace |-> namespace, name |-> name,
     type |-> type, config |-> config]

Data_entity(id, namespace, system, name, type, interface, entity_schema, config) ==
    [id |-> id, unid |-> NoUnid, namespace |-> namespace, system |-> system,
     name |-> name, type |-> type, interface |-> interface,
     entity_schema |-> entity_schema, config |-> config]

Pipeline(id, namespace, name, enabled, version, scope, type, velocity, input_output, config) ==
    [id |-> id, unid |-> NoUnid, namespace |-> namespace, name |-> name,
     enabled |-> enabled, version |-> version, scope |-> scope, type |-> type,
     velocity |-> velocity, input_output |-> input_output, config |-> config]

\* One side of a pipeline instance: a single reference or a list of them.
Single(ref) == [list |-> FALSE, refs |-> <<ref>>]

Many(refs) == [list |-> TRUE, refs |-> refs]

Instance(input, output) == [input |-> input, output |-> output]

\* The entity types that hold entities (ENTITIES without 'dag_config').
EntityTypes == <<"namespaces", "schemas", "systems", "data_entities", "pipelines">>

ENTITIES == {"namespaces", "schemas", "systems", "data_entities", "pipelines", "dag_config"}

SCHEMA_TYPES == {"avro", "bigquery"}

SYSTEM_TYPES == {"external", "internal", "platform"}

DATA_ENTITY_ALLOWED_TYPES == {"datasource", "dataset"}

DATA_ENTITY_ALLOWED_INTERFACES == {"api_rest", "api_graphql", "sql", "google_cloud_storage"}

PIPELINE_ALLOWED_SCOPES == {"single", "compound"}

PIPELINE_ALLOWED_TYPES == {"ingest", "transform", "delivery"}

PIPELINE_ALLOWED_VELOCITY == {"batch", "streaming"}

RESERVED_CONFIG_KEY_PREFIXES == {<<"p", "l", "_">>, <<"e", "n", "t", "_">>, <<"s", "y", "s", "_">>}

\* ------------------------------------------------------------------------
\* Python dicts in insertion order
\* ------------------------------------------------------------------------

\* k in dict.keys(), for a dict keyed by field f of its values
HasKey(dict, f, k) == \E i \in 1..Len(dict) : dict[i][f] = k

\* dict[k]; a KeyError when ~HasKey(dict, f, k), which every use guards
Lookup(dict, f, k) == dict[CHOOSE i \in 1..Len(dict) : dict[i][f] = k]

\* dict[obj.f] = obj: an existing key keeps its place, a new key goes last
DictSet(dict, f, obj) ==
    IF HasKey(dict, f, obj[f])
    THEN [i \in 1..Len(dict) |-> IF dict[i][f] = obj[f] THEN obj ELSE dict[i]]
    ELSE Append(dict, obj)

RECURSIVE DictFromList(_, _)
\* d = {}; for obj in list: d[obj.f] = obj
DictFromList(list, f) ==
    IF list = <<>> THEN <<>>
    ELSE DictSet(DictFromList(SubSeq(list, 1, Len(list) - 1), f), f, list[Len(list)])

\* del dict[k]
DictDel(dict, f, k) == SelectSeq(dict, LAMBDA obj : obj[f] # k)

\* ------------------------------------------------------------------------
\* unid.py: id -> compound key
\* ------------------------------------------------------------------------

\* str(version) as one segment of a unid
VersionStr(version) == ToString(version)

\* metadata_id_idx['<type>_idx'][ref] does not raise KeyError
Resolves(idx, type, ref) == IsInt(ref) /\ HasKey(idx[type], "id", ref.id)

namespace_id_to_unid(idx, id) == Lookup(idx.namespaces, "id", id).name

schema_id_to_unid(idx, id) ==
    LET sch == Lookup(idx.schemas, "id", id)
    IN  sch.name \o <<VersionStr(sch.version)>>

system_id_to_unid(idx, id) ==
    LET sys == Lookup(idx.systems, "id", id)
    IN  namespace_id_to_unid(idx, sys.namespace.id) \o sys.name

\* A variant that takes the name of the system for the key of the system
data_entity_id_to_unid_system_name(idx, id) ==
    LET ent == Lookup(idx.data_entities, "id", id)
    IN  namespace_id_to_unid(idx, ent.namespace.id)
            \o Lookup(idx.systems, "id", ent.system.id).name
            \o ent.name \o <<ent.type>>

data_entity_id_to_unid(idx, id) ==
    LET ent == Lookup(idx.data_entities, "id", id)
    IN  namespace_id_to_unid(idx, ent.namespace.id)
            \o system_id_to_unid(idx, ent.system.id)
            \o ent.name \o <<ent.type>>

pipeline_id_to_unid(idx, id) ==
    LET pl == Lookup(idx.pipelines, "id", id)
    IN  namespace_id_to_unid(idx, pl.namespace.id)
            \o pl.name \o <<pl.type>> \o <<VersionStr(pl.version)>>

id_to_unid(idx, type, id) ==
    CASE type = "namespaces" -> namespace_id_to_unid(idx, id)
      [] type = "schemas" -> schema_id_to_unid(idx, id)
      [] type = "systems" -> system_id_to_unid(idx, id)
      [] type = "data_entities" -> data_entity_id_to_unid(idx, id)
      [] type = "pipelines" -> pipeline_id_to_unid(idx, id)

\* id_to_unid(idx, type, id) raises KeyError: the entity or one of the
\* ancestors its key is built from is not in the id index
id_to_unid_raises(idx, type, id) ==
    \/ ~HasKey(idx[type], "id", id)
    \/ /\ type \in {"systems", "pipelines"}
       /\ ~Resolves(idx, "namespaces", Lookup(idx[type], "id", id).namespace)
    \/ /\ type = "data_entities"
       /\ LET ent == Lookup(idx.data_entities, "id", id)
          IN  \/ ~Resolves(idx, "namespaces", ent.namespace)
              \/ ~Resolves(idx, "systems", ent.system)
              \/ ~Resolves(idx, "namespaces",
                           Lookup(idx.systems, "id", ent.system.id).namespace)

\* ------------------------------------------------------------------------
\* build.py: indexes, key generation, integration
\* ------------------------------------------------------------------------

TypeSet == {EntityTypes[i] : i \in 1..Len(EntityTypes)}

TypePos(type) == CHOOSE i \in 1..Len(EntityTypes) : EntityTypes[i] = type

\* metadata_json_to_objects: a Pydantic object per record, field by field
metadata_json_to_objects(metadata_json) ==
    [t \in TypeSet |-> [i \in 1..Len(metadata_json[t]) |-> metadata_json[t][i]]]

\* An id that occurs twice keeps the place of its first record and the
\* value of its last one: the dict assignment overwrites.
create_id_indexes(metadata_obj) ==
    [t \in TypeSet |-> DictFromList(metadata_obj[t], "id")]

\* The places of a type whose key derivation raises KeyError
FailingAt(idx, type) ==
    {i \in 1..Len(idx[type]) : id_to_unid_raises(idx, type, idx[type][i].id)}

generate_unids_raises(idx) == \E t \in TypeSet : FailingAt(idx, t) # {}

\* generate_unids got as far as entity i of the type before raising (or ended)
Reached(idx, type, i) ==
    /\ \A u \in TypeSet : TypePos(u) < TypePos(type) => FailingAt(idx, u) = {}
    /\ \A j \in FailingAt(idx, type) : i < j

\* A variant that sets the unid only of the objects that have none
generate_unids_where_unset(idx) ==
    [t \in TypeSet |->
        [i \in 1..Len(idx[t]) |->
            IF Reached(idx, t, i) /\ idx[t][i].unid = NoUnid
            THEN [idx[t][i] EXCEPT !.unid = id_to_unid(idx, t, idx[t][i].id)]
            ELSE idx[t][i]]]

\* The id index after generate_unids, which sets the unid of its objects in
\* place, type by type, until it ends or raises.
generate_unids(idx) ==
    [t \in TypeSet |->
        [i \in 1..Len(idx[t]) |->
            IF Reached(idx, t, i)
            THEN [idx[t][i] EXCEPT !.unid = id_to_unid(idx, t, idx[t][i].id)]
            ELSE idx[t][i]]]

\* Two objects with one unid: the later one takes the key.
create_unid_indexes(metadata_unid) ==
    [t \in TypeSet |-> DictFromList(metadata_unid[t], "unid")]

\* All the references of a pipeline's instances, in order
RECURSIVE InstanceRefs(_)
InstanceRefs(input_output) ==
    IF input_output = <<>> THEN <<>>
    ELSE InstanceRefs(SubSeq(input_output, 1, Len(input_output) - 1))
            \o input_output[Len(input_output)].input.refs
            \o input_output[Len(input_output)].output.refs

RefSet(input_output) ==
    {InstanceRefs(input_output)[i] : i \in 1..Len(InstanceRefs(input_output))}

\* integrate_pipelines (and all_ids_to_unids after it) raises KeyError:
\* some reference is not a key of the id index of its type
integrate_pipelines_raises(idx) ==
    \/ \E i \in 1..Len(idx.schemas) : ~Resolves(idx, "namespaces", idx.schemas[i].namespace)
    \/ \E i \in 1..Len(idx.systems) : ~Resolves(idx, "namespaces", idx.systems[i].namespace)
    \/ \E i \in 1..Len(idx.data_entities) :
          \/ ~Resolves(idx, "namespaces", idx.data_entities[i].namespace)
          \/ ~Resolves(idx, "systems", idx.data_entities[i].system)
          \/ ~Resolves(idx, "schemas", idx.data_entities[i].entity_schema)
    \/ \E i \in 1..Len(idx.pipelines) :
          \/ ~Resolves(idx, "namespaces", idx.pipelines[i].namespace)
          \/ \E r \in RefSet(idx.pipelines[i].input_output) :
                ~Resolves(idx, "data_entities", r)

\* objects_from_unid_index / objects_from_id_index: the values of each index
objects_from_unid_index(metadata_unid_idx) ==
    [t \in TypeSet |-> metadata_unid_idx[t]]

objects_from_id_index(metadata_id_idx) ==
    [t \in TypeSet |-> metadata_id_idx[t]]

\* <type>_unid_refs_to_ids raises KeyError: a str reference is no key of
\* the unid index
unid_refs_to_ids_raises(unid_idx, type, obj) ==
    \/ /\ type \in {"schemas", "systems", "data_entities", "pipelines"}
       /\ IsStr(obj.namespace)
       /\ ~HasKey(unid_idx.namespaces, "unid", obj.namespace.unid)
    \/ /\ type = "data_entities"
       /\ \/ IsStr(obj.system) /\ ~HasKey(unid_idx.systems, "unid", obj.system.unid)
          \/ IsStr(obj.entity_schema)
                /\ ~HasKey(unid_idx.schemas, "unid", obj.entity_schema.unid)
    \/ /\ type = "pipelines"
       /\ \E r \in RefSet(obj.input_output) :
             IsStr(r) /\ ~HasKey(unid_idx.data_entities, "unid", r.unid)

\* A str reference becomes the id of the object the unid index holds
RefToId(unid_idx, type, ref) ==
    IF IsStr(ref) THEN IdRef(Lookup(unid_idx[type], "unid", ref.unid).id) ELSE ref

SideToIds(unid_idx, side) ==
    [side EXCEPT !.refs = [j \in 1..Len(side.refs) |->
                              RefToId(unid_idx, "data_entities", side.refs[j])]]

schema_unid_refs_to_ids(unid_idx, schema) ==
    [schema EXCEPT !.namespace = RefToId(unid_idx, "namespaces", @)]

system_unid_refs_to_ids(unid_idx, system) ==
    [system EXCEPT !.namespace = RefToId(unid_idx, "namespaces", @)]

data_entity_unid_refs_to_ids(unid_idx, data_entity) ==
    [data_entity EXCEPT !.namespace = RefToId(unid_idx, "namespaces", @),
                        !.system = RefToId(unid_idx, "systems", @),
                        !.entity_schema = RefToId(unid_idx, "schemas", @)]

pipeline_unid_refs_to_ids(unid_idx, pipeline) ==
    [pipeline EXCEPT
        !.namespace = RefToId(unid_idx, "namespaces", @),
        !.input_output = [i \in 1..Len(@) |->
            [input |-> SideToIds(unid_idx, @[i].input),
             output |-> SideToIds(unid_idx, @[i].output)]]]

unid_refs_to_ids(unid_idx, type, obj) ==
    CASE type = "schemas" -> schema_unid_refs_to_ids(unid_idx, obj)
      [] type = "systems" -> system_unid_refs_to_ids(unid_idx, obj)
      [] type = "data_entities" -> data_entity_unid_refs_to_ids(unid_idx, obj)
      [] type = "pipelines" -> pipeline_unid_refs_to_ids(unid_idx, obj)
      [] OTHER -> obj

\* ------------------------------------------------------------------------
\* validate.py: support functions and validation of existing entities
\* ------------------------------------------------------------------------

id_exists(metadata_id_idx, entity, id) == HasKey(metadata_id_idx[entity], "id", id)

unid_exists(metadata_unid_idx, entity, unid) == HasKey(metadata_unid_idx[entity], "unid", unid)

\* key.startswith(prefix)
StartsWith(key, prefix) ==
    Len(key) >= Len(prefix) /\ SubSeq(key, 1, Len(prefix)) = prefix

\* Defined by validate.py and called by none of its validation functions.
config_keys_are_legal(entity) ==
    \A key \in DOMAIN entity.config :
        \A prefix \in RESERVED_CONFIG_KEY_PREFIXES : ~StartsWith(key, prefix)

ErrIf(cond, msg) == IF cond THEN <<msg>> ELSE <<>>

\* The reference is an int or a str and the index of its kind holds it
RefExists(id_idx, unid_idx, entity, ref) ==
    IF IsInt(ref) THEN id_exists(id_idx, entity, ref.id)
    ELSE unid_exists(unid_idx, entity, ref.unid)

RefErrors(id_idx, unid_idx, entity, ref, msg_id, msg_unid) ==
    ErrIf(~RefExists(id_idx, unid_idx, entity, ref),
          IF IsInt(ref) THEN msg_id ELSE msg_unid)

Result(errors) == [valid |-> errors = <<>>, errors |-> errors]

validate_schema(schema, id_idx, unid_idx) ==
    Result(RefErrors(id_idx, unid_idx, "namespaces", schema.namespace,
                     "Referenced namespace id does not exist",
                     "Referenced namespace UNID does not exist")
           \o ErrIf(schema.type \notin SCHEMA_TYPES, "not a valid type for schemas"))

validate_system(system, id_idx, unid_idx) ==
    Result(RefErrors(id_idx, unid_idx, "namespaces", system.namespace,
                     "Referenced namespace id does not exist",
                     "Referenced namespace UNID does not exist")
           \o ErrIf(system.type \notin SYSTEM_TYPES, "not a valid type for systems"))

validate_data_entity(data_entity, id_idx, unid_idx) ==
    Result(RefErrors(id_idx, unid_idx, "namespaces", data_entity.namespace,
                     "Referenced namespace id does not exist",
                     "Referenced namespace UNID does not exist")
           \o RefErrors(id_idx, unid_idx, "systems", data_entity.system,
                        "Referenced system id does not exist",
                        "Referenced system UNID does not exist")
           \o RefErrors(id_idx, unid_idx, "schemas", data_entity.entity_schema,
                        "Referenced schema id does not exist",
                        "Referenced schema UNID does not exist")
           \o ErrIf(data_entity.type \notin DATA_ENTITY_ALLOWED_TYPES,
                    "not a valid type for data_entities")
           \o ErrIf(data_entity.interface \notin DATA_ENTITY_ALLOWED_INTERFACES,
                    "not a valid interface for data_entities"))

RECURSIVE SideErrors(_, _, _, _)
\* One error per reference of the side that does not exist, in order
SideErrors(id_idx, unid_idx, refs, msg) ==
    IF refs = <<>> THEN <<>>
    ELSE SideErrors(id_idx, unid_idx, SubSeq(refs, 1, Len(refs) - 1), msg)
            \o RefErrors(id_idx, unid_idx, "data_entities", refs[Len(refs)], msg, msg)

RECURSIVE InstanceErrors(_, _, _)
InstanceErrors(id_idx, unid_idx, input_output) ==
    IF input_output = <<>> THEN <<>>
    ELSE InstanceErrors(id_idx, unid_idx, SubSeq(input_output, 1, Len(input_output) - 1))
            \o SideErrors(id_idx, unid_idx, input_output[Len(input_output)].input.refs,
                          "Input entity does not exist")
            \o SideErrors(id_idx, unid_idx, input_output[Len(input_output)].output.refs,
                          "Output entity does not exist")

\* validate_pipeline raises NameError: the message of a missing namespace
\* UNID uses pl_unid, a name the function never binds
validate_pipeline_raises(pipeline, unid_idx) ==
    IsStr(pipeline.namespace) /\ ~unid_exists(unid_idx, "namespaces", pipeline.namespace.unid)

validate_pipeline(pipeline, id_idx, unid_idx) ==
    Result(RefErrors(id_idx, unid_idx, "namespaces", pipeline.namespace,
                     "Referenced namespace id does not exist",
                     "Referenced namespace UNID does not exist")
           \o InstanceErrors(id_idx, unid_idx, pipeline.input_output)
           \o ErrIf(pipeline.type \notin PIPELINE_ALLOWED_TYPES,
                    "not a valid type for pipelines")
           \o ErrIf(pipeline.scope \notin PIPELINE_ALLOWED_SCOPES,
                    "not a valid scope for pipelines")
           \o ErrIf(pipeline.velocity \notin PIPELINE_ALLOWED_VELOCITY,
                    "not a valid velocity for pipelines"))

\* The validation of an existing entity of the type (namespaces have none)
validate_entity(type, entity, id_idx, unid_idx) ==
    CASE type = "schemas" -> validate_schema(entity, id_idx, unid_idx)
      [] type = "systems" -> validate_system(entity, id_idx, unid_idx)
      [] type = "data_entities" -> validate_data_entity(entity, id_idx, unid_idx)
      [] type = "pipelines" -> validate_pipeline(entity, id_idx, unid_idx)
      [] OTHER -> Result(<<>>)

\* ------------------------------------------------------------------------
\* validate.py: validation of new entities
\* ------------------------------------------------------------------------

validate_new_namespace(namespace, id_idx, unid_idx) ==
    Result(ErrIf(unid_exists(unid_idx, "namespaces", namespace.name),
                 "A namespace with name exists already")
           \o ErrIf(id_exists(id_idx, "namespaces", namespace.id),
                    "A namespace with id exists already"))

validate_new_schema(schema, id_idx, unid_idx) ==
    LET result == validate_schema(schema, id_idx, unid_idx)
        schema_unid == schema.name \o <<VersionStr(schema.version)>>
    IN  IF ~result.valid THEN result
        ELSE Result(ErrIf(id_exists(id_idx, "schemas", schema.id),
                          "A schema with id exists already")
                    \o ErrIf(unid_exists(unid_idx, "schemas", schema_unid),
                             "A schema with UNID exists already"))

\* The id index of the scratch copy of the objects with the candidate,
\* its references turned to ids, appended
TmpIdIdx(type, entity, metadata_obj, unid_idx) ==
    create_id_indexes([metadata_obj EXCEPT
        ![type] = Append(@, unid_refs_to_ids(unid_idx, type, entity))])

\* validate_new_system, validate_new_data_entity, validate_new_pipeline
validate_new_keyed(type, entity, metadata_obj, id_idx, unid_idx) ==
    LET result == validate_entity(type, entity, id_idx, unid_idx)
        new_unid == id_to_unid(TmpIdIdx(type, entity, metadata_obj, unid_idx),
                               type, entity.id)
    IN  IF ~result.valid THEN result
        ELSE Result(ErrIf(id_exists(id_idx, type, entity.id),
                          "An entity with id exists already")
                    \o ErrIf(unid_exists(unid_idx, type, new_unid),
                             "An entity with UNID exists already"))

validate_new(type, entity, metadata_obj, id_idx, unid_idx) ==
    CASE type = "namespaces" -> validate_new_namespace(entity, id_idx, unid_idx)
      [] type = "schemas" -> validate_new_schema(entity, id_idx, unid_idx)
      [] OTHER -> validate_new_keyed(type, entity, metadata_obj, id_idx, unid_idx)

\* The new-entity validation raises instead of returning a result
validate_new_raises(type, entity, metadata_obj, id_idx, unid_idx) ==
    \/ type = "pipelines" /\ validate_pipeline_raises(entity, unid_idx)
    \/ /\ type \in {"systems", "data_entities", "pipelines"}
       /\ validate_entity(type, entity, id_idx, unid_idx).valid
       /\ \/ unid_refs_to_ids_raises(unid_idx, type, entity)
          \/ id_to_unid_raises(TmpIdIdx(type, entity, metadata_obj, unid_idx),
                               type, entity.id)

\* The four arguments of a new-entity validation, as the caller holds them
Given(entity, metadata_obj, id_idx, unid_idx) ==
    [entity |-> entity, metadata_obj |-> metadata_obj,
     metadata_id_idx |-> id_idx, metadata_unid_idx |-> unid_idx]

\* A variant without the deepcopy calls: tmp_ent is the candidate and tmp_obj
\* the object collections, which take the changes
validate_new_args_shared(type, entity, metadata_obj, id_idx, unid_idx) ==
    IF /\ type \in {"systems", "data_entities", "pipelines"}
       /\ ~validate_new_raises(type, entity, metadata_obj, id_idx, unid_idx)
       /\ validate_entity(type, entity, id_idx, unid_idx).valid
    THEN LET tmp_ent == unid_refs_to_ids(unid_idx, type, entity)
         IN  Given(tmp_ent, [metadata_obj EXCEPT ![type] = Append(@, tmp_ent)],
                   id_idx, unid_idx)
    ELSE Given(entity, metadata_obj, id_idx, unid_idx)

\* The arguments when a new-entity validation returns.  validate_new_system,
\* validate_new_data_entity and validate_new_pipeline turn the references of
\* deepcopy(entity) into ids and append to deepcopy(metadata_obj): the
\* copies take the changes; the other statements assign to locals and to the
\* result only
validate_new_args(type, entity, metadata_obj, id_idx, unid_idx) ==
    Given(entity, metadata_obj, id_idx, unid_idx)

\* ------------------------------------------------------------------------
\* validate.py: dependants
\* ------------------------------------------------------------------------

\* ent.<field> == id for an int id: a str reference is never equal to it
RefIs(ref, id) == IsInt(ref) /\ ref.id = id

Dependant(type, obj) == [type |-> type, id |-> obj.id]

\* The objects of the type whose field refers to the id, in list order
ReferrersIn(metadata_obj, type, field, id) ==
    LET hits == SelectSeq(metadata_obj[type], LAMBDA obj : RefIs(obj[field], id))
    IN  [i \in 1..Len(hits) |-> Dependant(type, hits[i])]

DepReport(dependants) == [has_dependants |-> dependants # <<>>, dependants |-> dependants]

get_namespace_dependants(namespace, metadata_obj) ==
    DepReport(ReferrersIn(metadata_obj, "schemas", "namespace", namespace.id)
              \o ReferrersIn(metadata_obj, "systems", "namespace", namespace.id)
              \o ReferrersIn(metadata_obj, "data_entities", "namespace", namespace.id)
              \o ReferrersIn(metadata_obj, "pipelines", "namespace", namespace.id))

get_schema_dependants(schema, metadata_obj) ==
    DepReport(ReferrersIn(metadata_obj, "data_entities", "entity_schema", schema.id))

get_system_dependants(system, metadata_obj) ==
    DepReport(ReferrersIn(metadata_obj, "data_entities", "system", system.id))

\* A pipeline is appended once for every reference to the data entity.
RECURSIVE PipelineHits(_, _)
PipelineHits(refs, id) ==
    IF refs = <<>> THEN 0
    ELSE PipelineHits(SubSeq(refs, 1, Len(refs) - 1), id)
            + (IF RefIs(refs[Len(refs)], id) THEN 1 ELSE 0)

RECURSIVE DataEntityDependants(_, _)
DataEntityDependants(pipelines, id) ==
    IF pipelines = <<>> THEN <<>>
    ELSE LET pl == pipelines[Len(pipelines)]
         IN  DataEntityDependants(SubSeq(pipelines, 1, Len(pipelines) - 1), id)
                \o [i \in 1..PipelineHits(InstanceRefs(pl.input_output), id) |->
                        Dependant("pipelines", pl)]

\* A variant that looks at no pipeline
get_data_entity_dependants_none(data_entity, metadata_obj) == DepReport(<<>>)

get_data_entity_dependants(data_entity, metadata_obj) ==
    DepReport(DataEntityDependants(metadata_obj.pipelines, data_entity.id))

get_entity_dependants(type, entity, metadata_obj) ==
    CASE type = "namespaces" -> get_namespace_dependants(entity, metadata_obj)
      [] type = "schemas" -> get_schema_dependants(entity, metadata_obj)
      [] type = "systems" -> get_system_dependants(entity, metadata_obj)
      [] type = "data_entities" -> get_data_entity_dependants(entity, metadata_obj)

\* ------------------------------------------------------------------------
\* build.py: integration and the DAG configuration
\* ------------------------------------------------------------------------

FLAT_PL_KEYS == <<"id", "unid", "namespace", "name", "type", "version", "scope", "velocity">>

FLAT_ENT_KEYS == <<"id", "unid", "namespace", "name", "type", "interface", "entity_schema">>

FLAT_SYS_KEYS == <<"id", "unid", "namespace", "name", "type">>

\* The characters of an attribute name, keys of a flat record being
\* sequences of characters as the keys of a config are
Chars(attr) ==
    CASE attr = "id" -> <<"i", "d">>
      [] attr = "unid" -> <<"u", "n", "i", "d">>
      [] attr = "namespace" -> <<"n", "a", "m", "e", "s", "p", "a", "c", "e">>
      [] attr = "name" -> <<"n", "a", "m", "e">>
      [] attr = "type" -> <<"t", "y", "p", "e">>
      [] attr = "version" -> <<"v", "e", "r", "s", "i", "o", "n">>
      [] attr = "scope" -> <<"s", "c", "o", "p", "e">>
      [] attr = "velocity" -> <<"v", "e", "l", "o", "c", "i", "t", "y">>
      [] attr = "interface" -> <<"i", "n", "t", "e", "r", "f", "a", "c", "e">>
      [] attr = "entity_schema" ->
            <<"e", "n", "t", "i", "t", "y", "_", "s", "c", "h", "e", "m", "a">>

\* The value of an attribute in a flat record, tagged with the attribute
Attr(obj, attr) == [a \in {attr} |-> obj[attr]]

\* {f'<prefix>{key}': getattr(obj, key) for key in keys}
Prefixed(prefix, keys, obj) ==
    [k \in {prefix \o Chars(keys[i]) : i \in 1..Len(keys)} |->
        Attr(obj, CHOOSE a \in {keys[i] : i \in 1..Len(keys)} : prefix \o Chars(a) = k)]

\* The entries of a config (None and {} have none), each value tagged
ConfigItems(config) == [k \in DOMAIN config |-> [any |-> config[k]]]

\* integrate_pipelines, flatten_namespaces = True: a namespace reference
\* becomes the name of the namespace
NamespaceName(idx, ref) == Lookup(idx.namespaces, "id", ref.id).name

IntegratedSchema(idx, id) ==
    [Lookup(idx.schemas, "id", id) EXCEPT !.namespace = NamespaceName(idx, @)]

IntegratedSystem(idx, id) ==
    [Lookup(idx.systems, "id", id) EXCEPT !.namespace = NamespaceName(idx, @)]

IntegratedEntity(idx, id) ==
    [Lookup(idx.data_entities, "id", id) EXCEPT
        !.namespace = NamespaceName(idx, @),
        !.system = IntegratedSystem(idx, @.id),
        !.entity_schema = IntegratedSchema(idx, @.id)]

IntegratedSide(idx, side) ==
    [side EXCEPT !.refs = [j \in 1..Len(side.refs) |-> IntegratedEntity(idx, side.refs[j].id)]]

\* integrate_pipelines: the pipelines of the id index, every reference
\* replaced by the object (the namespace by its name)
integrate_pipelines(idx) ==
    [i \in 1..Len(idx.pipelines) |->
        [idx.pipelines[i] EXCEPT
            !.namespace = NamespaceName(idx, @),
            !.input_output = [n \in 1..Len(@) |->
                                 [input |-> IntegratedSide(idx, @[n].input),
                                  output |-> IntegratedSide(idx, @[n].output)]]]]

\* The flat record of one input or output entity: the ent_ keys, the sys_
\* keys, updated with the config of the entity, then with the config of its
\* system
FlatEntity(ent) ==
    ConfigItems(ent.system.config) @@ ConfigItems(ent.config)
        @@ Prefixed(<<"s", "y", "s", "_">>, FLAT_SYS_KEYS, ent.system)
        @@ Prefixed(<<"e", "n", "t", "_">>, FLAT_ENT_KEYS, ent)

\* instance_conf['i'] / ['o']: one record, or a list of records
FlatSide(side) == [side |-> [side EXCEPT !.refs = [j \in 1..Len(side.refs) |-> FlatEntity(side.refs[j])]]]

\* flatten_instance(pipeline, instance_nr, objectify_output=False): the pl_
\* keys, updated with the config of the pipeline, then 'i' and 'o' set
flatten_instance(pipeline, instance_nr) ==
    (<<"i">> :> FlatSide(pipeline.input_output[instance_nr].input))
        @@ (<<"o">> :> FlatSide(pipeline.input_output[instance_nr].output))
        @@ ConfigItems(pipeline.config)
        @@ Prefixed(<<"p", "l", "_">>, FLAT_PL_KEYS, pipeline)

\* pl.unid[:pl.unid.rfind('.')]: the unid without its last segment
PipelineIdentifier(unid) == SubSeq(unid, 1, Len(unid) - 1)

DagEntry(pl) ==
    [key |-> PipelineIdentifier(pl.unid),
     instances |-> [n \in 1..Len(pl.input_output) |-> flatten_instance(pl, n)]]

RECURSIVE DagFromList(_)
\* conf = {}; for pl in enabled_pipelines: conf[pipeline_identifier] = ...
DagFromList(enabled_pipelines) ==
    IF enabled_pipelines = <<>> THEN <<>>
    ELSE DictSet(DagFromList(SubSeq(enabled_pipelines, 1, Len(enabled_pipelines) - 1)),
                 "key", DagEntry(enabled_pipelines[Len(enabled_pipelines)]))

\* A variant without the filter on enabled
integrated_to_dag_config_all(integrated) == DagFromList(integrated)

integrated_to_dag_config(integrated) ==
    DagFromList(SelectSeq(integrated, LAMBDA pl : pl.enabled))

\* ------------------------------------------------------------------------
\* view.py: the graph with compound keys for references
\* ------------------------------------------------------------------------

\* A variant that takes the key of the first object of the index
RefToFirstUnid(idx, type, ref) == UnidRef(idx[type][1].unid)

\* ns_byid[sch.namespace].unid: the key of the object the id index holds
RefToUnid(idx, type, ref) == UnidRef(Lookup(idx[type], "id", ref.id).unid)

SideToUnids(idx, side) ==
    [side EXCEPT !.refs = [j \in 1..Len(side.refs) |->
                              RefToUnid(idx, "data_entities", side.refs[j])]]

\* all_ids_to_unids: the objects of the id index, in its order, each
\* reference replaced by the unid of the object it refers to
all_ids_to_unids(metadata_id_idx) ==
    LET idx == metadata_id_idx
        Converted(t, obj) ==
            CASE t \in {"schemas", "systems"} ->
                    [obj EXCEPT !.namespace = RefToUnid(idx, "namespaces", @)]
              [] t = "data_entities" ->
                    [obj EXCEPT !.namespace = RefToUnid(idx, "namespaces", @),
                                !.system = RefToUnid(idx, "systems", @),
                                !.entity_schema = RefToUnid(idx, "schemas", @)]
              [] t = "pipelines" ->
                    [obj EXCEPT
                        !.namespace = RefToUnid(idx, "namespaces", @),
                        !.input_output = [i \in 1..Len(@) |->
                            [input |-> SideToUnids(idx, @[i].input),
                             output |-> SideToUnids(idx, @[i].output)]]]
              [] OTHER -> obj
    IN  [t \in TypeSet |-> [i \in 1..Len(idx[t]) |-> Converted(t, idx[t][i])]]

\* ------------------------------------------------------------------------
\* manage.py: MetadataStructure
\* ------------------------------------------------------------------------

EmptyIdx == [t \in TypeSet |-> <<>>]

\* The report attribute before any validation (None)
NoReport == [valid |-> FALSE, schemas |-> <<>>, systems |-> <<>>,
             data_entities |-> <<>>, pipelines |-> <<>>]

\* The results of one entity type, one per object of md_objects
TypeResults(st, type) ==
    [i \in 1..Len(st.md_objects[type]) |->
        validate_entity(type, st.md_objects[type][i], st.by_id, st.by_unid)]

\* MetadataStructure.validate raises (validate_pipeline does)
validate_raises(st) ==
    \E i \in 1..Len(st.md_objects.pipelines) :
        validate_pipeline_raises(st.md_objects.pipelines[i], st.by_unid)

AllValid(results) == \A i \in 1..Len(results) : results[i].valid

\* MetadataStructure.validate: the structure with valid and report set
validate(st) ==
    LET report == [valid |-> /\ AllValid(TypeResults(st, "schemas"))
                             /\ AllValid(TypeResults(st, "systems"))
                             /\ AllValid(TypeResults(st, "data_entities"))
                             /\ AllValid(TypeResults(st, "pipelines")),
                   schemas |-> TypeResults(st, "schemas"),
                   systems |-> TypeResults(st, "systems"),
                   data_entities |-> TypeResults(st, "data_entities"),
                   pipelines |-> TypeResults(st, "pipelines")]
    IN  [st EXCEPT !.valid = report.valid, !.report = report]

\* A variant that builds the indexes and neither integrates, builds the view
\* nor validates
build_from_objects_unchecked(st) ==
    LET idx0 == create_id_indexes(st.md_objects)
        st1 == [st EXCEPT !.by_id = generate_unids(idx0)]
    IN  [raised |-> generate_unids_raises(idx0),
         st |-> [st1 EXCEPT !.by_unid = create_unid_indexes(st1.by_id), !.valid = TRUE]]

\* MetadataStructure.build_from_objects on a structure whose md_objects are
\* set: [raised, st], st being the structure as the call leaves it.  Each
\* attribute is assigned when its builder returns, so a raise leaves the
\* later attributes as they were.
build_from_objects(st) ==
    LET idx0 == create_id_indexes(st.md_objects)
        st1 == [st EXCEPT !.by_id = generate_unids(idx0)]
        st2 == [st1 EXCEPT !.by_unid = create_unid_indexes(st1.by_id)]
        st3 == [st2 EXCEPT !.view = all_ids_to_unids(st2.by_id)]
    IN  IF generate_unids_raises(idx0) THEN [raised |-> TRUE, st |-> st1]
        ELSE IF integrate_pipelines_raises(st2.by_id) THEN [raised |-> TRUE, st |-> st2]
        ELSE IF validate_raises(st3) THEN [raised |-> TRUE, st |-> st3]
        ELSE [raised |-> FALSE, st |-> validate(st3)]

\* MetadataStructure(md_json): __init__ and build_from_json, which alone
\* sets dag_config (build_from_objects has no such line)
build_from_json(md_json) ==
    LET built == build_from_objects([md_objects |-> metadata_json_to_objects(md_json),
                                     by_id |-> EmptyIdx, by_unid |-> EmptyIdx,
                                     dag_config |-> <<>>, view |-> EmptyIdx,
                                     valid |-> FALSE, report |-> NoReport])
    IN  IF built.raised THEN built
        ELSE [built EXCEPT !.st.dag_config =
                               integrated_to_dag_config(integrate_pipelines(built.st.by_id))]

\* ------------------------------------------------------------------------
\* manage.py: MetadataManager
\* ------------------------------------------------------------------------

\* list.sort(key=lambda x: x.id), which is stable
RECURSIVE SortById(_)
SortById(list) ==
    IF list = <<>> THEN <<>>
    ELSE LET sorted == SortById(SubSeq(list, 1, Len(list) - 1))
             x == list[Len(list)]
             k == Cardinality({i \in 1..Len(sorted) : sorted[i].id <= x.id})
         IN  SubSeq(sorted, 1, k) \o <<x>> \o SubSeq(sorted, k + 1, Len(sorted))

NoCall == [op |-> "none"]

NoRet == [outcome |-> "none", value |-> [kind |-> "none"]]

Bool(b) == [kind |-> "bool", b |-> b]

Report(r) == [kind |-> "report", report |-> r]

None == [kind |-> "none"]

Exception(e) == [kind |-> "exception", exc |-> e]

\* A variant in which the handler works on the workspace itself: what it
\* staged is the workspace when it ends
FinishInPlace(ws, ch, outcome, value) ==
    /\ workspace' = IF ch # <<>> THEN ch[1] ELSE ws
    /\ cache' = ch
    /\ ret' = [outcome |-> outcome, value |-> value]
    /\ commits' = IF outcome = "committed" THEN commits + 1 ELSE commits
    /\ pc' = "returned"
    /\ UNCHANGED <<current, writes>>

\* The handler ends: what it leaves in workspace and cache, the path it took
\* (outcome) and what the caller gets (value); the handler says what became
\* of the caller's arguments (call')
Finish(ws, ch, outcome, value) ==
    /\ workspace' = ws
    /\ cache' = ch
    /\ ret' = [outcome |-> outcome, value |-> value]
    /\ commits' = IF outcome = "committed" THEN commits + 1 ELSE commits
    /\ pc' = "returned"
    /\ UNCHANGED <<current, writes>>

\* A variant that commits the staging copy without looking at its valid flag
CommitUnvalidated(built, on_commit, on_abort) ==
    Finish(built.st, <<>>, "committed", on_commit)

\* if self.cache.valid: self.workspace = deepcopy(self.cache);
\* self.cache = None.  Else the cache is left for inspection.
CommitOrAbort(built, on_commit, on_abort) ==
    IF built.st.valid
    THEN Finish(built.st, <<>>, "committed", on_commit)
    ELSE Finish(workspace, <<built.st>>, "invalid", on_abort)

AddNewEntity ==
    /\ pc = "called"
    /\ call.op = "add"
    /\ LET type == call.type
           entity == call.entity
           result == validate_new(type, entity, workspace.md_objects,
                                  workspace.by_id, workspace.by_unid)
           raises == validate_new_raises(type, entity, workspace.md_objects,
                                         workspace.by_id, workspace.by_unid)
           after == IF raises THEN Given(entity, workspace.md_objects,
                                         workspace.by_id, workspace.by_unid)
                    ELSE validate_new_args(type, entity, workspace.md_objects,
                                           workspace.by_id, workspace.by_unid)
           validated == [workspace EXCEPT !.md_objects = after.metadata_obj,
                                          !.by_id = after.metadata_id_idx,
                                          !.by_unid = after.metadata_unid_idx]
           staged == [validated EXCEPT !.md_objects[type] =
                        SortById(Append(@, unid_refs_to_ids(validated.by_unid, type,
                                                            after.entity)))]
           built == build_from_objects(staged)
       IN  /\ call' = [call EXCEPT !.entity = after.entity]
           /\ IF raises
              THEN Finish(validated, cache, "raised", Exception("NameError"))
              ELSE IF ~result.valid
              THEN Finish(validated, cache, "rejected", Report(result))
              ELSE IF call.choice = "n"
              THEN Finish(validated, cache, "declined", Bool(FALSE))
              ELSE IF unid_refs_to_ids_raises(validated.by_unid, type, after.entity)
              THEN Finish(validated, cache, "raised", Exception("KeyError"))
              ELSE IF built.raised
              THEN Finish(validated, <<built.st>>, "raised", Exception("KeyError"))
              ELSE CommitOrAbort(built, Bool(TRUE), Bool(FALSE))

UpdateEntity ==
    /\ pc = "called"
    /\ call.op = "update"
    /\ UNCHANGED call
    /\ LET type == call.type
           entity == [unid_refs_to_ids(workspace.by_unid, type, call.entity)
                        EXCEPT !.unid = NoUnid]
           by_id == [workspace.by_id EXCEPT ![type] = DictSet(@, "id", entity)]
           staged == [workspace EXCEPT !.by_id = by_id,
                                       !.md_objects = objects_from_id_index(by_id)]
           built == build_from_objects(staged)
       IN  IF unid_refs_to_ids_raises(workspace.by_unid, type, call.entity)
           THEN Finish(workspace, <<workspace>>, "raised", Exception("KeyError"))
           ELSE IF ~HasKey(workspace.by_id[type], "id", entity.id)
           THEN Finish(workspace, <<workspace>>, "raised", Exception("ValueError"))
           ELSE IF built.raised
           THEN Finish(workspace, <<built.st>>, "raised", Exception("KeyError"))
           ELSE CommitOrAbort(built, None, None)

DeleteEntity ==
    /\ pc = "called"
    /\ call.op = "delete"
    /\ UNCHANGED call
    /\ LET type == call.type
           unid == call.unid
           entity == Lookup(workspace.by_unid[type], "unid", unid)
           dep_report == get_entity_dependants(type, entity, workspace.md_objects)
           by_unid == [workspace.by_unid EXCEPT ![type] = DictDel(@, "unid", unid)]
           staged == [workspace EXCEPT !.by_unid = by_unid,
                                       !.md_objects = objects_from_unid_index(by_unid)]
           built == build_from_objects(staged)
       IN  IF ~HasKey(workspace.by_unid[type], "unid", unid)
           THEN Finish(workspace, cache, "raised", Exception("ValueError"))
           ELSE IF type # "pipelines" /\ dep_report.has_dependants
           THEN Finish(workspace, cache, "refused", Report(dep_report))
           ELSE IF built.raised
           THEN Finish(workspace, <<built.st>>, "raised", Exception("KeyError"))
           ELSE CommitOrAbort(built, Bool(TRUE), Bool(FALSE))

\* ------------------------------------------------------------------------
\* The graphs and the candidate entities of the model
\* ------------------------------------------------------------------------

MaxCommits == 2

Ids == {1, 2}

sales == <<"sales">>

hr == <<"hr">>

orders == <<"orders">>

erp == <<"erp">>

crm == <<"crm">>

orders_raw == <<"orders_raw">>

load == <<"load">>

retries == <<"r", "e", "t", "r", "i", "e", "s">>

pl_id == <<"p", "l", "_", "i", "d">>

ent_name == <<"e", "n", "t", "_", "n", "a", "m", "e">>

sys_type == <<"s", "y", "s", "_", "t", "y", "p", "e">>

Config(key, value) == [k \in {key} |-> value]

OneToOne(i, o) == <<Instance(Single(IdRef(i)), Single(IdRef(o)))>>

\* The scenario of the specification: one namespace, schema, system and
\* data entity, all with id 1
Scenario ==
    [namespaces |-> <<Namespace(1, sales)>>,
     schemas |-> <<Schema(1, IdRef(1), orders, "avro", 1)>>,
     systems |-> <<System(1, IdRef(1), erp, "internal", NoConfig)>>,
     data_entities |-> <<Data_entity(1, IdRef(1), IdRef(1), orders_raw, "dataset",
                                     "sql", IdRef(1), NoConfig)>>,
     pipelines |-> <<>>]

\* A second graph: an unreferenced namespace before the referenced one, an
\* unreferenced system after the referenced one, and a pipeline
TwoNamespaces ==
    [namespaces |-> <<Namespace(1, hr), Namespace(2, sales)>>,
     schemas |-> <<Schema(1, IdRef(2), orders, "avro", 1)>>,
     systems |-> <<System(1, IdRef(2), erp, "internal", NoConfig),
                   System(2, IdRef(2), crm, "platform", Config(retries, "3"))>>,
     data_entities |-> <<Data_entity(1, IdRef(2), IdRef(1), orders_raw, "dataset",
                                     "sql", IdRef(1), NoConfig)>>,
     pipelines |-> <<Pipeline(1, IdRef(2), load, TRUE, 1, "single", "ingest", "batch",
                              OneToOne(1, 1), NoConfig)>>]

InitGraphs == {Scenario, TwoNamespaces}

\* The last one carries a compound key set by the caller
NamespaceCandidates ==
    {Namespace(i, n) : i \in Ids, n \in {sales, hr}}
        \cup {[Namespace(1, hr) EXCEPT !.unid = <<"stale">>]}

SchemaCandidates ==
    {Schema(i, IdRef(1), orders, "avro", v) : i \in Ids, v \in {1, 2}}
    \cup {Schema(2, IdRef(2), orders, "avro", 2),
          Schema(2, UnidRef(sales), orders, "bigquery", 2),
          Schema(2, UnidRef(crm), orders, "avro", 2),
          Schema(1, IdRef(1), orders, "xml", 1),
          Schema(1, IdRef(2), orders, "xml", 2)}

SystemCandidates ==
    {System(i, IdRef(n), erp, "internal", NoConfig) : i \in Ids, n \in Ids}
    \cup {System(2, UnidRef(sales), crm, "platform", Config(retries, "3")),
          System(2, IdRef(1), crm, "internal", Config(pl_id, "x")),
          System(1, IdRef(1), erp, "mainframe", NoConfig)}

DataEntityCandidates ==
    {Data_entity(i, IdRef(1), IdRef(s), orders_raw, "dataset", "sql", IdRef(1), NoConfig) :
        i \in Ids, s \in Ids}
    \cup {Data_entity(2, UnidRef(sales), UnidRef(sales \o erp), orders_raw, "datasource",
                      "api_rest", UnidRef(orders \o <<"1">>), NoConfig),
          Data_entity(2, IdRef(1), IdRef(1), orders_raw, "datasource", "sql", IdRef(2),
                      Config(ent_name, "x")),
          Data_entity(1, IdRef(1), IdRef(1), orders_raw, "dataset", "ftp", IdRef(1),
                      NoConfig)}

PipelineCandidates ==
    {Pipeline(i, IdRef(1), load, en, v, "single", "ingest", "batch", OneToOne(1, 1), NoConfig) :
        i \in Ids, v \in {1, 2}, en \in {TRUE}}
    \cup {Pipeline(2, IdRef(1), load, FALSE, 2, "single", "ingest", "batch",
                   OneToOne(1, 2), NoConfig),
          Pipeline(2, UnidRef(sales), load, TRUE, 1, "compound", "transform", "batch",
                   <<Instance(Many(<<IdRef(1), IdRef(1)>>), Single(IdRef(1))),
                     Instance(Single(UnidRef(sales \o sales \o erp \o orders_raw \o <<"dataset">>)),
                              Many(<<IdRef(1)>>))>>,
                   Config(sys_type, "x")),
          Pipeline(2, UnidRef(crm), load, TRUE, 2, "single", "ingest", "batch",
                   OneToOne(1, 1), NoConfig),
          Pipeline(1, IdRef(1), load, TRUE, 1, "batch", "ingest", "single",
                   OneToOne(1, 1), NoConfig),
          Pipeline(2, UnidRef(crm), load, TRUE, 1, "single", "copy", "batch",
                   OneToOne(1, 1), NoConfig),
          Pipeline(2, IdRef(1), load, TRUE, 1, "single", "transform", "batch",
                   OneToOne(1, 1) \o OneToOne(1, 1), NoConfig)}

Candidates(type) ==
    CASE type = "namespaces" -> NamespaceCandidates
      [] type = "schemas" -> SchemaCandidates
      [] type = "systems" -> SystemCandidates
      [] type = "data_entities" -> DataEntityCandidates
      [] type = "pipelines" -> PipelineCandidates

\* The keys delete_entity is called with: those of the workspace and one
\* that no entity has
DeleteKeys(type) ==
    {workspace.by_unid[type][i].unid : i \in 1..Len(workspace.by_unid[type])}
        \cup {<<"missing">>}

\* ------------------------------------------------------------------------
\* The specification of the manager
\* ------------------------------------------------------------------------

Init ==
    /\ workspace \in {build_from_json(g).st : g \in InitGraphs}
    /\ cache = <<>>
    /\ pc = "idle"
    /\ call = NoCall
    /\ ret = NoRet
    /\ commits = 0
    /\ current = workspace
    /\ writes = <<>>

\* The editor calls an operation of the manager; its arguments are call'
Invoke ==
    /\ pc = "idle"
    /\ commits < MaxCommits
    /\ pc' = "called"
    /\ ret' = NoRet
    /\ UNCHANGED <<workspace, cache, commits, current, writes>>

CallAdd ==
    \E type \in TypeSet : \E entity \in Candidates(type) : \E choice \in {"y", "n"} :
        /\ Invoke
        /\ call' = [op |-> "add", type |-> type, entity |-> entity, choice |-> choice]

CallUpdate ==
    \E type \in TypeSet : \E entity \in Candidates(type) :
        /\ Invoke
        /\ call' = [op |-> "update", type |-> type, entity |-> entity]

CallDelete ==
    \E type \in TypeSet : \E unid \in DeleteKeys(type) :
        /\ Invoke
        /\ call' = [op |-> "delete", type |-> type, unid |-> unid]

\* The caller takes the returned value and is ready for the next call; the
\* log of the storage writer's calls is that of one call of the manager
Return ==
    /\ pc = "returned"
    /\ pc' = "idle"
    /\ call' = NoCall
    /\ ret' = NoRet
    /\ writes' = <<>>
    /\ UNCHANGED <<workspace, cache, commits, current>>

Next ==
    \/ CallAdd
    \/ CallUpdate
    \/ CallDelete
    \/ AddNewEntity
    \/ UpdateEntity
    \/ DeleteEntity
    \/ Return

Spec == Init /\ [][Next]_vars

\* ------------------------------------------------------------------------
\* The specification of the construction of a MetadataStructure from raw
\* collections
\* ------------------------------------------------------------------------

\* The attributes of the class before any build
NoStructure ==
    [md_objects |-> EmptyIdx, by_id |-> EmptyIdx, by_unid |-> EmptyIdx,
     dag_config |-> <<>>, view |-> EmptyIdx, valid |-> FALSE, report |-> NoReport]

Structure(st) == [kind |-> "structure", st |-> st]

RawNamespaces ==
    {<<Namespace(1, sales)>>,
     <<Namespace(1, sales), Namespace(2, hr)>>,
     <<Namespace(1, sales), Namespace(1, hr)>>}

RawSchemas ==
    {<<Schema(1, IdRef(1), orders, "avro", 1)>>,
     <<Schema(1, IdRef(3), orders, "avro", 1)>>,
     <<Schema(1, IdRef(1), orders, "xml", 1)>>,
     <<Schema(1, IdRef(1), orders, "avro", 1), Schema(1, IdRef(1), orders, "avro", 2)>>}

RawSystems ==
    {<<System(1, IdRef(1), erp, "internal", NoConfig)>>,
     <<System(1, IdRef(3), erp, "internal", NoConfig)>>,
     <<System(1, IdRef(1), erp, "mainframe", NoConfig)>>,
     <<System(1, IdRef(1), erp, "internal", NoConfig),
       System(1, IdRef(1), crm, "internal", Config(pl_id, "x"))>>}

RawDataEntities ==
    {<<Data_entity(1, IdRef(1), IdRef(1), orders_raw, "dataset", "sql", IdRef(1), NoConfig)>>,
     <<Data_entity(1, IdRef(1), IdRef(1), orders_raw, "dataset", "sql", IdRef(3), NoConfig)>>,
     <<Data_entity(1, IdRef(1), IdRef(3), orders_raw, "dataset", "sql", IdRef(1), NoConfig)>>,
     <<Data_entity(1, IdRef(1), IdRef(1), orders_raw, "table", "sql", IdRef(1), NoConfig)>>,
     <<Data_entity(1, IdRef(1), IdRef(1), orders_raw, "dataset", "sql", IdRef(1),
                   Config(ent_name, "x"))>>}

RawPipelines ==
    {<<>>,
     <<Pipeline(1, IdRef(1), load, TRUE, 1, "single", "ingest", "batch",
                OneToOne(1, 1), NoConfig)>>,
     <<Pipeline(1, IdRef(1), load, TRUE, 1, "single", "ingest", "batch",
                OneToOne(1, 3), NoConfig)>>,
     <<Pipeline(1, IdRef(1), load, FALSE, 1, "single", "ingest", "batch",
                OneToOne(1, 1), NoConfig)>>,
     <<Pipeline(1, IdRef(1), load, TRUE, 2, "single", "ingest", "batch",
                OneToOne(1, 1), NoConfig),
       Pipeline(2, IdRef(1), load, TRUE, 1, "compound", "ingest", "batch",
                <<Instance(Many(<<IdRef(1), IdRef(1)>>), Single(IdRef(1))),
                  Instance(Single(IdRef(1)), Many(<<IdRef(1)>>))>>,
                Config(retries, "3"))>>,
     <<Pipeline(1, IdRef(1), load, TRUE, 1, "single", "ingest", "batch",
                OneToOne(1, 1), NoConfig),
       Pipeline(2, IdRef(1), load, FALSE, 2, "single", "ingest", "batch",
                OneToOne(1, 1), NoConfig),
       Pipeline(3, IdRef(1), load, TRUE, 1, "compound", "transform", "batch",
                <<Instance(Single(IdRef(1)), Many(<<IdRef(1), IdRef(1)>>)),
                  Instance(Many(<<IdRef(1)>>), Single(IdRef(1)))>>,
                NoConfig)>>,
     <<Pipeline(1, IdRef(1), load, TRUE, 1, "single", "ingest", "hourly",
                OneToOne(1, 1), NoConfig)>>}

RawGraphs ==
    {[namespaces |-> ns, schemas |-> sch, systems |-> sys, data_entities |-> de,
      pipelines |-> pl] :
        ns \in RawNamespaces, sch \in RawSchemas, sys \in RawSystems,
        de \in RawDataEntities, pl \in RawPipelines}

InitBuild ==
    /\ workspace = NoStructure
    /\ cache = <<>>
    /\ pc = "idle"
    /\ call = NoCall
    /\ ret = NoRet
    /\ commits = 0
    /\ current = NoStructure
    /\ writes = <<>>

CallBuild ==
    /\ pc = "idle"
    /\ \E md_json \in RawGraphs : call' = [op |-> "build", md_json |-> md_json]
    /\ pc' = "called"
    /\ ret' = NoRet
    /\ UNCHANGED <<workspace, cache, commits, current, writes>>

\* MetadataStructure(md_json): the caller gets the structure, or the
\* exception of the first builder that raises
BuildStructure ==
    /\ pc = "called"
    /\ call.op = "build"
    /\ LET built == build_from_json(call.md_json)
       IN  ret' = IF built.raised
                  THEN [outcome |-> "raised", value |-> Exception("KeyError")]
                  ELSE [outcome |-> "built", value |-> Structure(built.st)]
    /\ pc' = "returned"
    /\ UNCHANGED <<workspace, cache, call, commits, current, writes>>

NextBuild ==
    \/ CallBuild
    \/ BuildStructure
    \/ Return

SpecBuild == InitBuild /\ [][NextBuild]_vars

\* ------------------------------------------------------------------------
\* build.py and manage.py: reading from and writing to storage
\* ------------------------------------------------------------------------

\* ENTITIES in the order of the list
EntityOrder == EntityTypes \o <<"dag_config">>

\* An optional list argument: None, or a list
NoList == [kind |-> "none"]

List(l) == [kind |-> "list", l |-> l]

\* not md_entities: None and the empty list alike
Falsy(arg) == arg.kind = "none" \/ arg.l = <<>>

MdJson(md) == [kind |-> "md_json", md |-> md]

\* read_metadata: [raised, value].  The loop takes the entity types in
\* order; for each it first tests membership of ENTITIES (ValueError), then
\* evaluates 'entity not in exclude_entities', a TypeError when
\* exclude_entities is None; the first exception ends the call.
read_metadata(storage_reader, md_entities, exclude_entities) ==
    LET entities == IF Falsy(md_entities) THEN EntityOrder ELSE md_entities.l
        Raises(i) == entities[i] \notin ENTITIES \/ exclude_entities.kind = "none"
        failing == {i \in 1..Len(entities) : Raises(i)}
        first == CHOOSE i \in failing : \A j \in failing : i <= j
        excluded == {exclude_entities.l[i] : i \in 1..Len(exclude_entities.l)}
        loaded == {entities[i] : i \in 1..Len(entities)} \ excluded
    IN  IF failing # {}
        THEN [raised |-> TRUE,
              value |-> Exception(IF entities[first] \notin ENTITIES
                                  THEN "ValueError" ELSE "TypeError")]
        ELSE [raised |-> FALSE,
              value |-> MdJson([e \in loaded |-> storage_reader[e]])]

\* write_metadata: the calls of the storage writer, one per key of the
\* metadata in the order of the dict, each with the encoded entities
write_metadata(location, metadata_obj_or_json) ==
    [i \in 1..Len(EntityTypes) |->
        [location |-> location, md_entity_type |-> EntityTypes[i],
         entity_list |-> metadata_obj_or_json[EntityTypes[i]]]]

\* str.lower() of an answer of one character
lower(c) == CASE c = "Y" -> "y" [] c = "N" -> "n" [] OTHER -> c

\* The input loop: the first answer whose lower() is y or n
RECURSIVE go_on(_)
go_on(inputs) ==
    IF lower(Head(inputs)) \in {"y", "n"} THEN Head(inputs) ELSE go_on(Tail(inputs))

\* The end of stash_workspace and store_workspace: return False without a
\* write, or hand the workspace's md_objects to the writer and return True
WriteUnless(location, refuse) ==
    IF refuse
    THEN /\ writes' = <<>>
         /\ ret' = [outcome |-> "refused", value |-> Bool(FALSE)]
    ELSE /\ writes' = write_metadata(location, workspace.md_objects)
         /\ ret' = [outcome |-> "written", value |-> Bool(TRUE)]

\* stash_workspace: an invalid workspace is written unless the answer is
\* 'n' ('go_on == "n"' compares the answer itself, not its lower())
StashWorkspace ==
    /\ pc = "called"
    /\ call.op = "stash"
    /\ WriteUnless("stash", ~workspace.valid /\ go_on(call.inputs) = "n")
    /\ pc' = "returned"
    /\ UNCHANGED <<workspace, cache, call, commits, current>>

\* store_workspace: after the write, 'self.load_current' names the method
\* and does not call it, so current stays what it was
StoreWorkspace ==
    /\ pc = "called"
    /\ call.op = "store"
    /\ WriteUnless("store", ~workspace.valid)
    /\ pc' = "returned"
    /\ UNCHANGED <<workspace, cache, call, commits, current>>

\* load_current: current is assigned when read_metadata and the
\* construction of the structure have both returned
LoadCurrent ==
    /\ pc = "called"
    /\ call.op = "load_current"
    /\ LET md_json == read_metadata(call.storage_reader, NoList, NoList)
           built == build_from_json(md_json.value.md)
       IN  IF md_json.raised
           THEN /\ ret' = [outcome |-> "raised", value |-> md_json.value]
                /\ UNCHANGED current
           ELSE IF built.raised
           THEN /\ ret' = [outcome |-> "raised", value |-> Exception("KeyError")]
                /\ UNCHANGED current
           ELSE /\ ret' = [outcome |-> "loaded", value |-> None]
                /\ current' = built.st
    /\ pc' = "returned"
    /\ UNCHANGED <<workspace, cache, call, commits, writes>>

\* A call of read_metadata itself
ReadMetadata ==
    /\ pc = "called"
    /\ call.op = "read"
    /\ LET md_json == read_metadata(call.storage_reader, call.md_entities,
                                    call.exclude_entities)
       IN  ret' = [outcome |-> IF md_json.raised THEN "raised" ELSE "read",
                   value |-> md_json.value]
    /\ pc' = "returned"
    /\ UNCHANGED <<workspace, cache, call, commits, current, writes>>

\* ------------------------------------------------------------------------
\* The specification of the manager with its storage
\* ------------------------------------------------------------------------

\* A graph that loads and is invalid: its schema has a type that is not
\* allowed
InvalidGraph ==
    [Scenario EXCEPT !.schemas = <<Schema(1, IdRef(1), orders, "xml", 1)>>]

StorageGraphs == InitGraphs \cup {InvalidGraph}

\* The answers of the editor to 'Continue (y), or abort (n)?'
Inputs == {<<"y">>, <<"n">>, <<"Y">>, <<"N">>, <<"x", "n">>, <<"x", "Y">>}

\* What a storage reader returns for each entity type: the collections of
\* a stored graph, and no records for 'dag_config'
Readers ==
    {[e \in ENTITIES |-> IF e \in TypeSet THEN g[e] ELSE <<>>] : g \in StorageGraphs}

EntityLists ==
    {NoList, List(<<>>), List(<<"schemas">>), List(<<"pipelines", "namespaces">>),
     List(<<"schemas", "views">>), List(<<"views">>)}

ExcludeLists == {NoList, List(<<>>), List(<<"dag_config">>), List(<<"schemas">>)}

InitStorage ==
    /\ workspace \in {build_from_json(g).st : g \in StorageGraphs}
    /\ cache = <<>>
    /\ pc = "idle"
    /\ call = NoCall
    /\ ret = NoRet
    /\ commits = 0
    /\ current = workspace
    /\ writes = <<>>

InvokeStorage ==
    /\ pc = "idle"
    /\ pc' = "called"
    /\ ret' = NoRet
    /\ UNCHANGED <<workspace, cache, commits, current, writes>>

CallStash ==
    \E inputs \in Inputs :
        /\ InvokeStorage
        /\ call' = [op |-> "stash", inputs |-> inputs]

CallStore ==
    /\ InvokeStorage
    /\ call' = [op |-> "store"]

CallLoadCurrent ==
    \E reader \in Readers :
        /\ InvokeStorage
        /\ call' = [op |-> "load_current", storage_reader |-> reader]

CallRead ==
    \E reader \in Readers : \E md_entities \in EntityLists :
        \E exclude_entities \in ExcludeLists :
            /\ InvokeStorage
            /\ call' = [op |-> "read", storage_reader |-> reader,
                        md_entities |-> md_entities,
                        exclude_entities |-> exclude_entities]

NextStorage ==
    \/ CallAdd
    \/ CallUpdate
    \/ CallDelete
    \/ AddNewEntity
    \/ UpdateEntity
    \/ DeleteEntity
    \/ CallStash
    \/ CallStore
    \/ CallLoadCurrent
    \/ CallRead
    \/ StashWorkspace
    \/ StoreWorkspace
    \/ LoadCurrent
    \/ ReadMetadata
    \/ Return

SpecStorage == InitStorage /\ [][NextStorage]_vars

\* ------------------------------------------------------------------------
\* Properties
\* ------------------------------------------------------------------------

\* A handler step: the call is taken and the handler returns
Handled(op) == pc = "called" /\ call.op = op /\ pc' = "returned"

Entities(idx, type) == {idx[type][i] : i \in 1..Len(idx[type])}

\* The reference is the id of an entity of the type in the id index
RefOk(idx, type, ref) == ref.k = "id" /\ \E e \in Entities(idx, type) : e.id = ref.id

EntityRefsOk(idx, type, e) ==
    /\ type # "namespaces" => RefOk(idx, "namespaces", e.namespace)
    /\ type = "data_entities" =>
          RefOk(idx, "systems", e.system) /\ RefOk(idx, "schemas", e.entity_schema)
    /\ type = "pipelines" =>
          \A i \in 1..Len(e.input_output) :
              /\ \A j \in 1..Len(e.input_output[i].input.refs) :
                    RefOk(idx, "data_entities", e.input_output[i].input.refs[j])
              /\ \A j \in 1..Len(e.input_output[i].output.refs) :
                    RefOk(idx, "data_entities", e.input_output[i].output.refs[j])

\* The references of the entities of a collection resolve in the id index
AllRefsOk(idx, coll) == \A t \in TypeSet : \A e \in Entities(coll, t) : EntityRefsOk(idx, t, e)

EnumsAllowed(type, e) ==
    /\ type = "schemas" => e.type \in SCHEMA_TYPES
    /\ type = "systems" => e.type \in SYSTEM_TYPES
    /\ type = "data_entities" =>
          e.type \in DATA_ENTITY_ALLOWED_TYPES /\ e.interface \in DATA_ENTITY_ALLOWED_INTERFACES
    /\ type = "pipelines" =>
          /\ e.type \in PIPELINE_ALLOWED_TYPES
          /\ e.scope \in PIPELINE_ALLOWED_SCOPES
          /\ e.velocity \in PIPELINE_ALLOWED_VELOCITY

\* C1: a call of add_new_entity, update_entity or delete_entity that does
\* not commit (rejected, declined, refused, staging copy invalid, raised)
\* leaves the workspace exactly as it was before the call.
C1_NoCommitNoChange ==
    [][(pc = "called" /\ pc' = "returned" /\ ret'.outcome # "committed")
          => workspace' = workspace]_vars

\* An update was staged, its staging copy failed whole-graph validation and
\* is left in the cache, different from the workspace
C1_Witness ==
    /\ pc = "returned"
    /\ call.op = "update"
    /\ ret.outcome = "invalid"
    /\ cache # <<>>
    /\ cache[1].md_objects # workspace.md_objects
    /\ ~cache[1].valid

\* C2: the workspace is only replaced by a staging copy that passed
\* whole-graph validation: workspace.valid is true in every state, the
\* workspace is at all times what a build from its own objects gives (no
\* partially applied mutation), and it changes only by a commit.
C2_OnlyValidatedStaging ==
    /\ [](workspace.valid /\ build_from_objects(workspace) = [raised |-> FALSE, st |-> workspace])
    /\ [][workspace' # workspace =>
            /\ pc = "called"
            /\ ret'.outcome = "committed"
            /\ workspace'.valid
            /\ cache' = <<>>]_vars

\* Two mutations were committed one after the other
C2_Witness ==
    /\ pc = "returned"
    /\ ret.outcome = "committed"
    /\ commits = MaxCommits
    /\ workspace.valid

\* The derived compound key of an entity of the id index
KeyOf(idx, type, e) == id_to_unid(idx, type, e.id)

UniqueKeys(idx) ==
    \A t \in TypeSet : \A e1, e2 \in Entities(idx, t) :
        e1.id # e2.id => KeyOf(idx, t, e1) # KeyOf(idx, t, e2)

\* C3: after any sequence of committed operations no two entities of one
\* type in the id index of the workspace have the same derived compound key.
C3_UniqueKeys == UniqueKeys(workspace.by_id)

\* The references of a candidate resolve in the workspace, by id or by key
CandidateRefOk(type, ref) == RefExists(workspace.by_id, workspace.by_unid, type, ref)

CandidateResolves(type, e) ==
    /\ type # "namespaces" => CandidateRefOk("namespaces", e.namespace)
    /\ type = "data_entities" =>
          CandidateRefOk("systems", e.system) /\ CandidateRefOk("schemas", e.entity_schema)
    /\ type = "pipelines" => \A r \in RefSet(e.input_output) : CandidateRefOk("data_entities", r)

DuplicateId(type, e) == \E x \in Entities(workspace.by_id, type) : x.id = e.id

\* The key the candidate would get equals the key of an entity of the type
DuplicateKey(type, e) ==
    /\ CandidateResolves(type, e)
    /\ \E x \in Entities(workspace.by_id, type) :
          KeyOf(workspace.by_id, type, x) =
              KeyOf(TmpIdIdx(type, e, workspace.md_objects, workspace.by_unid), type, e)

\* C4: add_new_entity rejects a candidate with a duplicate id or a duplicate
\* key, with an error in the returned report and the workspace unchanged; a
\* candidate with resolvable references, allowed enum values, a fresh id
\* and a fresh key is committed to a valid workspace when the editor confirms.
C4_AddRejectsDuplicates ==
    [][Handled("add") =>
          LET type == call.type
              e == call.entity
          IN  /\ (DuplicateId(type, e) \/ DuplicateKey(type, e)) =>
                    /\ ret'.outcome = "rejected"
                    /\ ret'.value.kind = "report"
                    /\ ~ret'.value.report.valid
                    /\ ret'.value.report.errors # <<>>
                    /\ workspace' = workspace
              /\ (/\ ~DuplicateId(type, e)
                  /\ CandidateResolves(type, e)
                  /\ ~DuplicateKey(type, e)
                  /\ EnumsAllowed(type, e)
                  /\ call.choice = "y") =>
                    /\ ret'.outcome = "committed"
                    /\ workspace'.valid
                    /\ \E x \in Entities(workspace'.by_id, type) : x.id = e.id]_vars

\* C5: in every workspace reached, every namespace, system and schema
\* reference and every input and output reference of a pipeline instance is
\* the id of an entity of the expected type of the same workspace.
C5_ReferencesResolve ==
    /\ AllRefsOk(workspace.by_id, workspace.by_id)
    /\ AllRefsOk(workspace.by_id, workspace.md_objects)
    /\ AllRefsOk(workspace.by_id, workspace.by_unid)

\* A candidate that refers by compound key was committed
C5_Witness ==
    /\ pc = "returned"
    /\ call.op = "add"
    /\ ret.outcome = "committed"
    /\ call.type = "data_entities"
    /\ call.entity.system.k = "unid"
    /\ \E x \in Entities(workspace.by_id, "data_entities") : x.id = call.entity.id

\* The entity of the type that the unid index holds under the compound key
Targets(type, unid) == {e \in Entities(workspace.by_unid, type) : e.unid = unid}

\* The entities of the workspace that refer to the entity, as the report
\* names them
Referrers(type, e) ==
    LET refers(t, field) ==
            {Dependant(t, x) : x \in {y \in Entities(workspace.by_id, t) : y[field] = IdRef(e.id)}}
    IN  CASE type = "namespaces" ->
                refers("schemas", "namespace") \cup refers("systems", "namespace")
                    \cup refers("data_entities", "namespace") \cup refers("pipelines", "namespace")
          [] type = "schemas" -> refers("data_entities", "entity_schema")
          [] type = "systems" -> refers("data_entities", "system")

Listed(dependants) == {dependants[i] : i \in 1..Len(dependants)}

\* C6: delete_entity on a referenced Namespace, Schema or System is refused,
\* the workspace is unchanged and the report has has_dependants = true and
\* lists exactly the referencing entities; on an unreferenced one it commits
\* and removes the entity.
C6_DeleteGate ==
    [][(Handled("delete") /\ call.type \in {"namespaces", "schemas", "systems"}) =>
          \A e \in Targets(call.type, call.unid) :
              IF Referrers(call.type, e) # {}
              THEN /\ ret'.outcome = "refused"
                   /\ workspace' = workspace
                   /\ ret'.value.kind = "report"
                   /\ ret'.value.report.has_dependants
                   /\ Listed(ret'.value.report.dependants) = Referrers(call.type, e)
                   /\ Len(ret'.value.report.dependants) = Cardinality(Referrers(call.type, e))
              ELSE /\ ret'.outcome = "committed"
                   /\ \A x \in Entities(workspace'.by_id, call.type) : x.id # e.id]_vars

ReservedKey(e) ==
    \E key \in DOMAIN e.config : \E prefix \in {<<"p", "l", "_">>, <<"e", "n", "t", "_">>,
                                                 <<"s", "y", "s", "_">>} :
        Len(key) >= Len(prefix) /\ SubSeq(key, 1, Len(prefix)) = prefix

\* C7: a System, DataEntity or Pipeline with a config key that starts with
\* pl_, ent_ or sys_ is never in the workspace, which add_new_entity and
\* update_entity only change to a graph that passed validation.
C7_NoReservedConfigKey ==
    \A t \in {"systems", "data_entities", "pipelines"} :
        \A e \in Entities(workspace.by_id, t) : ~ReservedKey(e)

\* C8: for every entity of the id index of the workspace id_to_unid gives
\* Namespace -> name; Schema -> name.version; System -> <namespace key>.name;
\* DataEntity -> <namespace key>.<system key>.name.type, the system key
\* starting with the key of the system's own namespace; Pipeline ->
\* <namespace key>.name.type.version; the index stores that key; and for the
\* scenario of the specification the keys are sales, orders.1, sales.erp and
\* sales.sales.erp.orders_raw.dataset.
C8_KeyFormulas ==
    LET idx == workspace.by_id
        ns(ref) == (CHOOSE n \in Entities(idx, "namespaces") : n.id = ref.id).name
        sys(ref) == CHOOSE x \in Entities(idx, "systems") : x.id = ref.id
    IN  /\ \A t \in TypeSet : \A e \in Entities(idx, t) : e.unid = id_to_unid(idx, t, e.id)
        /\ \A e \in Entities(idx, "namespaces") : id_to_unid(idx, "namespaces", e.id) = e.name
        /\ \A e \in Entities(idx, "schemas") :
              id_to_unid(idx, "schemas", e.id) = e.name \o <<ToString(e.version)>>
        /\ \A e \in Entities(idx, "systems") :
              id_to_unid(idx, "systems", e.id) = ns(e.namespace) \o e.name
        /\ \A e \in Entities(idx, "data_entities") :
              id_to_unid(idx, "data_entities", e.id) =
                  ns(e.namespace) \o (ns(sys(e.system).namespace) \o sys(e.system).name)
                      \o e.name \o <<e.type>>
        /\ \A e \in Entities(idx, "pipelines") :
              id_to_unid(idx, "pipelines", e.id) =
                  ns(e.namespace) \o e.name \o <<e.type>> \o <<ToString(e.version)>>
        /\ workspace.md_objects = metadata_json_to_objects(Scenario) =>
              /\ id_to_unid(idx, "namespaces", 1) = <<"sales">>
              /\ id_to_unid(idx, "schemas", 1) = <<"orders", "1">>
              /\ id_to_unid(idx, "systems", 1) = <<"sales", "erp">>
              /\ id_to_unid(idx, "data_entities", 1) =
                    <<"sales", "sales", "erp", "orders_raw", "dataset">>

\* A data entity whose namespace is not the namespace of its system, and a
\* pipeline, have their keys
C8_Witness ==
    /\ \E e \in Entities(workspace.by_id, "data_entities") :
          e.unid = <<"hr", "sales", "erp", "orders_raw", "dataset">>
    /\ \E e \in Entities(workspace.by_id, "pipelines") :
          e.unid = <<"sales", "load", "ingest", "1">>

HasDuplicateId(md_json) ==
    \E t \in TypeSet : \E i, j \in 1..Len(md_json[t]) :
        i # j /\ md_json[t][i].id = md_json[t][j].id

\* C9: the build of a MetadataStructure from collections in which two
\* records of one type share an id fails and gives no structure.
C9_DuplicateIdAborts ==
    (pc = "returned" /\ call.op = "build" /\ HasDuplicateId(call.md_json))
        => ret.outcome = "raised"

\* A reference to an id that no record of the type has, or an enum value
\* outside its allowed set
SemanticallyWrong(md_json) ==
    \/ ~AllRefsOk(md_json, md_json)
    \/ \E t \in TypeSet : \E e \in Entities(md_json, t) : ~EnumsAllowed(t, e)

HasError(report) ==
    \E t \in {"schemas", "systems", "data_entities", "pipelines"} :
        \E i \in 1..Len(report[t]) : report[t][i].errors # <<>>

\* C10: the build of a MetadataStructure from well-formed records with a
\* reference to a missing id or an enum value outside its allowed set does
\* not raise: it gives a structure with valid = false and the error in its
\* report.
C10_LoadedButInvalid ==
    (pc = "returned" /\ call.op = "build" /\ ~HasDuplicateId(call.md_json)
        /\ SemanticallyWrong(call.md_json))
        => /\ ret.outcome = "built"
           /\ ~ret.value.st.valid
           /\ ~ret.value.st.report.valid
           /\ HasError(ret.value.st.report)

ErrorSet(report) == {report.errors[i] : i \in 1..Len(report.errors)}

DuplicateIdErrors == {"A schema with id exists already", "An entity with id exists already"}

\* C11: when add_new_entity rejects a Schema, System, DataEntity or Pipeline
\* that has a dangling reference or an enum value outside its allowed set
\* and also an id already in use, the returned report has an error entry
\* for the id as well as one for the reference or the enum value.
C11_ReportEnumeratesAll ==
    [][(Handled("add") /\ call.type # "namespaces" /\ ret'.outcome = "rejected"
            /\ (~EnumsAllowed(call.type, call.entity) \/ ~CandidateResolves(call.type, call.entity))
            /\ DuplicateId(call.type, call.entity)) =>
          /\ ErrorSet(ret'.value.report) \cap DuplicateIdErrors # {}
          /\ ErrorSet(ret'.value.report) \ DuplicateIdErrors # {}]_vars

\* C12: when the rebuilt staging copy fails whole-graph validation,
\* add_new_entity, update_entity and delete_entity return the validation
\* report of the staging copy, with its errors.
C12_ReturnsValidationReport ==
    [][(pc = "called" /\ pc' = "returned" /\ ret'.outcome = "invalid") =>
          /\ ret'.value.kind = "report"
          /\ ret'.value.report = cache'[1].report]_vars

\* The structure a build returned
Built == ret.value.st

BuildReturned == pc = "returned" /\ call.op = "build" /\ ret.outcome = "built"

\* namespace.name.type of a pipeline of the id index
ConsumerKey(idx, pl) ==
    (CHOOSE n \in Entities(idx, "namespaces") : n.id = pl.namespace.id).name
        \o pl.name \o <<pl.type>>

\* The flat side has the shape of the instance side and its records are
\* those of the referenced data entities, in order
SideMatches(flat, side) ==
    /\ flat.side.list = side.list
    /\ Len(flat.side.refs) = Len(side.refs)
    /\ \A j \in 1..Len(side.refs) :
          flat.side.refs[j][<<"e", "n", "t", "_", "i", "d">>] = [id |-> side.refs[j].id]

InstancesMatch(instances, pl) ==
    /\ Len(instances) = Len(pl.input_output)
    /\ \A n \in 1..Len(instances) :
          /\ SideMatches(instances[n][<<"i">>], pl.input_output[n].input)
          /\ SideMatches(instances[n][<<"o">>], pl.input_output[n].output)

DagKeys(dag) == {dag[i].key : i \in 1..Len(dag)}

C14_LatestVersionWins ==
    BuildReturned =>
        \A i \in 1..Len(Built.dag_config) :
            \A pl \in Entities(Built.by_id, "pipelines") :
                (pl.enabled /\ ConsumerKey(Built.by_id, pl) = Built.dag_config[i].key
                    /\ Built.dag_config[i].instances # <<>>) =>
                    Built.dag_config[i].instances[1][<<"p", "l", "_", "v", "e", "r", "s", "i", "o", "n">>].version
                        >= pl.version

\* C15: the dag_config of the workspace is the flattening of the enabled
\* pipelines of the graph the workspace holds.
C15_DagConfigOfWorkspace ==
    workspace.dag_config = integrated_to_dag_config(integrate_pipelines(workspace.by_id))

\* The reference fields of an entity of a type
RefsOf(type, e) ==
    CASE type = "schemas" -> {e.namespace}
      [] type = "systems" -> {e.namespace}
      [] type = "data_entities" -> {e.namespace, e.system, e.entity_schema}
      [] type = "pipelines" -> {e.namespace} \cup RefSet(e.input_output)
      [] OTHER -> {}

\* C16: every record handed to the storage writer has no unid and has
\* numeric ids in all its reference fields.
C16_WrittenRecordsNormalised ==
    \A i \in 1..Len(writes) :
        \A j \in 1..Len(writes[i].entity_list) :
            /\ writes[i].entity_list[j].unid = NoUnid
            /\ \A r \in RefsOf(writes[i].md_entity_type, writes[i].entity_list[j]) : IsInt(r)

\* C17: store_workspace writes only a valid workspace, and returns False
\* without a write for an invalid one; stash_workspace writes an invalid
\* workspace only when the editor's answer is a yes.
C17_WriteGates ==
    [][/\ Handled("store") =>
             IF workspace.valid THEN writes' # <<>>
             ELSE writes' = <<>> /\ ret'.value = Bool(FALSE)
       /\ (Handled("stash") /\ ~workspace.valid /\ writes' # <<>>) =>
             lower(go_on(call.inputs)) = "y"]_vars

\* C18: after store_workspace returns True current holds the entities of
\* the workspace that was written, and add / update / delete leave current
\* as it is.
C18_CurrentIsTheStore ==
    [][/\ (Handled("store") /\ ret'.value = Bool(TRUE)) => current'.by_id = workspace.by_id
       /\ (Handled("add") \/ Handled("update") \/ Handled("delete")) => current' = current]_vars

\* C20: read_metadata called without a list of entity types and without
\* an exclusion list, by itself or by load_current, does not raise and
\* returns one collection for every entity type.
C20_ReadLoadsEveryType ==
    [][/\ (Handled("read") /\ call.md_entities = NoList /\ call.exclude_entities = NoList) =>
             /\ ret'.outcome = "read"
             /\ DOMAIN ret'.value.md = ENTITIES
       /\ Handled("load_current") => ret'.outcome = "loaded"]_vars

\* C19: in a graph whose keys are unique per type, resolving the references
\* of the view (all_ids_to_unids of the id index) against the unid index
\* gives back the numeric references of the id index: namespace, system and
\* schema references and every input and output reference of every pipeline
\* instance, singular or list.
C19_RoundTrip ==
    UniqueKeys(workspace.by_id) =>
        \A t \in TypeSet :
            /\ Len(workspace.view[t]) = Len(workspace.by_id[t])
            /\ \A i \in 1..Len(workspace.view[t]) :
                  unid_refs_to_ids(workspace.by_unid, t, workspace.view[t][i])
                      = workspace.by_id[t][i]

\* A workspace with unique keys, a reference to a second object of its
\* type, and a pipeline with a list of two inputs and a singular output
C19_Witness ==
    /\ UniqueKeys(workspace.by_id)
    /\ \E i \in 1..Len(workspace.by_id.schemas) : workspace.by_id.schemas[i].namespace = IdRef(2)
    /\ \E i \in 1..Len(workspace.view.pipelines) :
          \E k \in 1..Len(workspace.view.pipelines[i].input_output) :
              LET instance == workspace.view.pipelines[i].input_output[k]
              IN  /\ instance.input.list
                  /\ Len(instance.input.refs) = 2
                  /\ ~instance.output.list
                  /\ \A r \in RefSet(workspace.view.pipelines[i].input_output) : IsStr(r)

\* The messages of the enum checks
EnumErrors ==
    {"not a valid type for schemas", "not a valid type for systems",
     "not a valid type for data_entities", "not a valid interface for data_entities",
     "not a valid type for pipelines", "not a valid scope for pipelines",
     "not a valid velocity for pipelines"}

\* The result of an entity flags it for an enum value
Flagged(result) == ~result.valid /\ ErrorSet(result) \cap EnumErrors # {}

\* The report of a validated structure flags every entity with an enum
\* value that is not allowed, and no entity whose enum values are allowed
\* and whose references resolve
GraphFlagged(st) ==
    \A t \in TypeSet \ {"namespaces"} : \A i \in 1..Len(st.md_objects[t]) :
        LET e == st.md_objects[t][i]
            result == st.report[t][i]
        IN  /\ ~EnumsAllowed(t, e) => Flagged(result) /\ ~st.report.valid
            /\ (EnumsAllowed(t, e) /\ EntityRefsOk(st.by_id, t, e)) => result.valid

\* C21: whole-graph validation (of the staging copy of a call that got as
\* far as validating it) and new-entity validation flag every entity with
\* an enum value outside the allowed set of its field, with valid = false
\* and an error entry, and whole-graph validation flags no entity whose
\* enum values are allowed and whose references resolve.
C21_EnumsFlagged ==
    [][/\ (pc = "called" /\ pc' = "returned" /\ ret'.outcome = "invalid") =>
             GraphFlagged(cache'[1])
       /\ (pc = "called" /\ pc' = "returned" /\ ret'.outcome = "committed") =>
             GraphFlagged(workspace')
       /\ (Handled("add") /\ ~EnumsAllowed(call.type, call.entity)) =>
             /\ ret'.outcome = "rejected"
             /\ Flagged(ret'.value.report)]_vars

IdsOf(idx, type) == {e.id : e \in Entities(idx, type)}

\* C22: a committed delete_entity(type, key) removes the entity that had
\* the key and no other: every other entity of every type of the workspace
\* before the call is in the workspace after it.
C22_DeleteRemovesOne ==
    [][(Handled("delete") /\ ret'.outcome = "committed") =>
          \A t \in TypeSet :
              IdsOf(workspace'.by_id, t) =
                  IdsOf(workspace.by_id, t) \
                      (IF t = call.type THEN IdsOf(workspace.by_unid, t) \cap
                                               {e.id : e \in Targets(t, call.unid)}
                       ELSE {})]_vars

\* The entities of the id index that lie below the namespace: its systems,
\* data entities and pipelines
Below(idx, id) ==
    {e \in Entities(idx, "systems") \cup Entities(idx, "data_entities")
            \cup Entities(idx, "pipelines") : e.namespace = IdRef(id)}

\* C23: after a committed add, update or delete the key stored on each
\* entity of the workspace's id index is the key derived from that index;
\* after a committed update of a Namespace the keys of the entities below it
\* begin with the name the update gave it, and the key of the updated entity
\* is the derived one whatever key the caller supplied.
C23_KeysRederived ==
    [][(pc = "called" /\ pc' = "returned" /\ ret'.outcome = "committed") =>
          LET idx == workspace'.by_id
          IN  /\ \A t \in TypeSet : \A e \in Entities(idx, t) :
                    e.unid = id_to_unid(idx, t, e.id)
              /\ call.op = "update" =>
                    \E e \in Entities(idx, call.type) :
                        /\ e.id = call.entity.id
                        /\ e.unid = id_to_unid(idx, call.type, e.id)
                        /\ call.type = "namespaces" => e.unid = call.entity.name
              /\ (call.op = "update" /\ call.type = "namespaces") =>
                    \A e \in Below(idx, call.entity.id) :
                        StartsWith(e.unid, call.entity.name)]_vars

\* The update of namespace 1 of the scenario to the name hr, with a key
\* supplied by the caller, is committed: the system and the data entity
\* below it have keys that begin with hr
C23_Witness ==
    /\ pc = "returned"
    /\ call.op = "update"
    /\ call.type = "namespaces"
    /\ call.entity.unid # NoUnid
    /\ ret.outcome = "committed"
    /\ commits = 1
    /\ \E e \in Below(workspace.by_id, 1) : e.unid = hr \o erp
    /\ \E e \in Below(workspace.by_id, 1) : e.unid = hr \o hr \o erp \o orders_raw \o <<"dataset">>

\* The pipelines of the workspace that refer to the data entity by id, on
\* either side of any instance, as the report names them
PipelinesUsing(e) ==
    {Dependant("pipelines", pl) : pl \in
        {pl \in Entities(workspace.md_objects, "pipelines") :
            \E r \in RefSet(pl.input_output) : r = IdRef(e.id)}}

\* C24: delete_entity on a DataEntity that some pipeline refers to is
\* refused, the workspace unchanged, with a report that has has_dependants =
\* true and lists exactly the referring pipelines; without such a pipeline
\* it is not refused; and the delete of a Pipeline is never refused.
C24_DataEntityGate ==
    [][/\ (Handled("delete") /\ call.type = "data_entities") =>
             \A e \in Targets(call.type, call.unid) :
                 IF PipelinesUsing(e) # {}
                 THEN /\ ret'.outcome = "refused"
                      /\ workspace' = workspace
                      /\ ret'.value.report.has_dependants
                      /\ Listed(ret'.value.report.dependants) = PipelinesUsing(e)
                 ELSE ret'.outcome # "refused"
       /\ (Handled("delete") /\ call.type = "pipelines") => ret'.outcome # "refused"]_vars

\* The delete of a data entity was refused because of a pipeline that has
\* it in a list of inputs
C24_Witness ==
    /\ pc = "returned"
    /\ call.op = "delete"
    /\ call.type = "data_entities"
    /\ ret.outcome = "refused"
    /\ ret.value.report.dependants # <<>>
    /\ \E pl \in Entities(workspace.md_objects, "pipelines") :
          \E i \in 1..Len(pl.input_output) :
              /\ pl.input_output[i].input.list
              /\ \E e \in Targets(call.type, call.unid) :
                    \E j \in 1..Len(pl.input_output[i].input.refs) :
                        pl.input_output[i].input.refs[j] = IdRef(e.id)

\* C25: add_new_entity of a Schema, System, DataEntity or Pipeline with a
\* reference, numeric or compound key, that does not resolve in the
\* workspace returns a report with valid = false and an error entry, and
\* does not raise.
C25_DanglingReported ==
    [][(Handled("add") /\ call.type # "namespaces"
            /\ ~CandidateResolves(call.type, call.entity)) =>
          /\ ret'.outcome = "rejected"
          /\ ~ret'.value.report.valid
          /\ ret'.value.report.errors # <<>>]_vars

\* The record has, under every prefixed key, the field of the object
Agrees(rec, prefix, keys, obj) ==
    \A k \in DOMAIN Prefixed(prefix, keys, obj) :
        k \in DOMAIN rec /\ rec[k] = Prefixed(prefix, keys, obj)[k]

SideStructural(flat, side) ==
    /\ Len(flat.side.refs) = Len(side.refs)
    /\ \A j \in 1..Len(side.refs) :
          /\ Agrees(flat.side.refs[j], <<"e", "n", "t", "_">>, FLAT_ENT_KEYS, side.refs[j])
          /\ Agrees(flat.side.refs[j], <<"s", "y", "s", "_">>, FLAT_SYS_KEYS,
                    side.refs[j].system)

\* C26: in the dag_config of a built structure that passed validation, the
\* pl_ entries of every flat instance record are the fields of its pipeline,
\* and the ent_ and sys_ entries of every input and output record are the
\* fields of the data entity and of its system: no config entry replaced one.
C26_StructuralKeysKept ==
    (BuildReturned /\ Built.valid) =>
        LET integrated == integrate_pipelines(Built.by_id)
        IN  \A i \in 1..Len(Built.dag_config) :
                \E p \in 1..Len(integrated) :
                    LET pl == integrated[p]
                        instances == Built.dag_config[i].instances
                    IN  /\ pl.enabled
                        /\ PipelineIdentifier(pl.unid) = Built.dag_config[i].key
                        /\ Len(instances) = Len(pl.input_output)
                        /\ \A n \in 1..Len(instances) :
                              /\ Agrees(instances[n], <<"p", "l", "_">>, FLAT_PL_KEYS, pl)
                              /\ SideStructural(instances[n][<<"i">>], pl.input_output[n].input)
                              /\ SideStructural(instances[n][<<"o">>], pl.input_output[n].output)

ReportTypes == {"schemas", "systems", "data_entities", "pipelines"}

\* C27: in the report of the validation of a built structure, the list of an
\* entity type is empty when no entity of the type has an error, and all
\* four lists are empty when valid is true.
C27_ReportListsEmpty ==
    BuildReturned =>
        /\ \A type \in ReportTypes :
              AllValid(Built.report[type]) => Built.report[type] = <<>>
        /\ Built.valid => \A type \in ReportTypes : Built.report[type] = <<>>

C29_ScopeMatchesInstances ==
    workspace.valid =>
        \A i \in 1..Len(workspace.md_objects.pipelines) :
            LET pl == workspace.md_objects.pipelines[i]
            IN  /\ pl.scope = "single" => Len(pl.input_output) = 1
                /\ pl.scope = "compound" => Len(pl.input_output) >= 1

\* C30: the dependants list that refuses the delete of a data entity names
\* every pipeline at most once.
C30_DependantsOnce ==
    (/\ pc = "returned"
     /\ call.op = "delete"
     /\ call.type = "data_entities"
     /\ ret.outcome = "refused") =>
        LET dependants == ret.value.report.dependants
        IN  Cardinality({dependants[i] : i \in 1..Len(dependants)}) = Len(dependants)

====
